---- MODULE Spec2Model ----
(***************************************************************************)
(* A model of austen's nested telemetry logger (austen/telemetry.py) and   *)
(* of the JSON encoder it persists with (austen/encoders/numpy.py).        *)
(*                                                                         *)
(* Strings are sequences of tokens, so that Python's `+` on strings is     *)
(* sequence concatenation and `key + '-' + str(i)` is computed, not named. *)
(* A Python dict is a sequence of [key, val] records with unique keys, in  *)
(* insertion order.  A path is a sequence of path components.              *)
(***************************************************************************)
EXTENDS Integers, Sequences, FiniteSets, TLC

\* ------------------------------------------------------------------ bounds
\* the logger table's size
MaxLoggers     == 3
\* the specification of entry insertion: one logger, MaxEntries insertions
MaxEntries     == 3
\* the specification of scope exits: a tree of MergeLoggers loggers under one
\* root, MergeEntries insertions in all
MergeLoggers   == 3
MergeEntries   == 2
\* the specification of trees with siblings: TreeLoggers loggers under one
\* root, TreeEntries insertions in all
TreeLoggers    == 3
TreeEntries    == 2
\* the specification of persistence: PersistLoggers loggers, PersistRoots of
\* them roots, PersistCalls log_func calls in all
PersistLoggers == 2
PersistRoots   == 2
PersistCalls   == 2
\* the specification of the disk: DiskLoggers loggers, DiskRoots of them
\* roots, DiskFiles files on disk
DiskLoggers    == 2
DiskRoots      == 2
DiskFiles      == 2
\* the specification of the step counter: a root that made up to MaxPrior
\* log_func calls and one child, StepCalls further calls, StepFiles files
MaxPrior       == 100
StepLoggers    == 2
StepCalls      == 1
StepFiles      == 1
\* the specification of everything at once
AllLoggers     == 2
AllInserts     == 1
AllFiles       == 1

\* ------------------------------------------------------- program constants
\* encoders/numpy.py: arrays of fewer than 20 elements are written in full
ArrayLimit == 20
\* telemetry.py: step counters below 10 get a leading '0'
PadLimit   == 10
\* telemetry.py: a fresh logger's step counter
FirstStep  == 1

\* ----------------------------------------------------------------- strings
Digits == <<"0", "1", "2", "3", "4", "5", "6", "7", "8", "9">>

RECURSIVE Str(_)
\* Python str(i) of a non-negative int: its decimal digits
Str(i) ==
    IF i < 10 THEN <<Digits[i + 1]>>
    ELSE Str(i \div 10) \o <<Digits[(i % 10) + 1]>>

\* ------------------------------------------------------------------ values
\* Every loggable value has the same record shape, so values compare.
StrV(s)  == [kind |-> "str",  n |-> 0, s |-> s,    m |-> <<>>]
NumV(n)  == [kind |-> "num",  n |-> n, s |-> <<>>, m |-> <<>>]
\* a one-dimensional numpy array of n elements
ArrV(n)  == [kind |-> "arr",  n |-> n, s |-> <<>>, m |-> <<>>]
\* a JSON / Python list of n elements
ListV(n) == [kind |-> "list", n |-> n, s |-> <<>>, m |-> <<>>]
DictV(m) == [kind |-> "dict", n |-> 0, s |-> <<>>, m |-> m]

\* ------------------------------------------------------------------- dicts
Entry(k, v) == [key |-> k, val |-> v]
KeysOf(d)   == {d[i].key : i \in DOMAIN d}
Has(d, k)   == \E i \in DOMAIN d : d[i].key = k
Get(d, k)   == d[CHOOSE i \in DOMAIN d : d[i].key = k].val
IndexOf(d, k) == CHOOSE i \in DOMAIN d : d[i].key = k

\* d[k] = v and the {**d, k: v} display: an existing key keeps its position
\* and takes the new value, a new key is appended
DictSet(d, k, v) ==
    IF Has(d, k)
    THEN [i \in DOMAIN d |-> IF d[i].key = k THEN Entry(k, v) ELSE d[i]]
    ELSE Append(d, Entry(k, v))

RECURSIVE DictUpdate(_, _)
\* {**d, **e}: the entries of e are set into d, in e's order
DictUpdate(d, e) ==
    IF e = <<>> THEN d
    ELSE DictUpdate(DictSet(d, Head(e).key, Head(e).val), Tail(e))

\* -------------------------------------------------------------- filesystem
IsPrefix(p, q) == Len(p) <= Len(q) /\ SubSeq(q, 1, Len(p)) = p

\* the directory a path lies in; the working directory <<>> always exists
Parent(p)      == SubSeq(p, 1, Len(p) - 1)
DirExists(ds, d) == d = <<>> \/ d \in ds

\* shutil.rmtree(p, ignore_errors=True): a directory goes with everything
\* under it; anything else is left as it is (directories, then files)
rmtree_dirs(ds, p)  == IF p \in ds THEN {d \in ds : ~IsPrefix(p, d)} ELSE ds

\* rmtree that stops at the files lying directly in p
rmtree_files_flat(ds, fs, p) ==
    IF p \in ds
    THEN [q \in {q \in DOMAIN fs : Parent(q) # p} |-> fs[q]]
    ELSE fs

\* the files rmtree removes: all those under p
rmtree_files(ds, fs, p) ==
    IF p \in ds
    THEN [q \in {q \in DOMAIN fs : ~IsPrefix(p, q)} |-> fs[q]]
    ELSE fs

\* mkdir without parents=True: nothing is made under a missing directory
mkdir_no_parents(ds, p) ==
    IF DirExists(ds, Parent(p)) THEN ds \cup {p} ELSE ds

\* Path.mkdir(parents=True, exist_ok=True)
mkdir(ds, p) == ds \cup {SubSeq(p, 1, i) : i \in 1..Len(p)}

\* open(path, 'w') and the library writers: the file is created or replaced
\* when its directory exists, else the call raises and nothing is written
write_file(ds, fs, p, c) ==
    IF DirExists(ds, Parent(p)) THEN (p :> c) @@ fs ELSE fs

\* ------------------------------------------------------------ JSON encoder
\* the encoder without its size test: every array is written in full
numpy_default_in_full(v) ==
    [kind |-> "array", n |-> v.n, s |-> <<>>, m |-> <<>>]

\* NumpyEncoder.default: what json.dump writes for a numpy array
numpy_default(v) ==
    IF v.n < ArrayLimit
    THEN [kind |-> "array", n |-> v.n, s |-> <<>>, m |-> <<>>]
    ELSE [kind |-> "string", n |-> 0,
          s |-> <<"shape:", "(">> \o Str(v.n) \o <<",", ")">>, m |-> <<>>]

RECURSIVE json_dump(_)
\* json.dump(dictionary, file, cls=NumpyEncoder): the document written
json_dump(v) ==
    CASE v.kind = "dict" ->
           [kind |-> "object", n |-> 0, s |-> <<>>,
            m |-> [i \in DOMAIN v.m |-> Entry(v.m[i].key, json_dump(v.m[i].val))]]
      [] v.kind = "str"  -> [kind |-> "string", n |-> 0, s |-> v.s, m |-> <<>>]
      [] v.kind = "num"  -> [kind |-> "number", n |-> v.n, s |-> <<>>, m |-> <<>>]
      [] v.kind = "list" -> [kind |-> "array",  n |-> v.n, s |-> <<>>, m |-> <<>>]
      [] v.kind = "arr"  -> numpy_default(v)

RECURSIVE json_load(_)
\* json.load: the Python value a document parses to
json_load(j) ==
    CASE j.kind = "object" ->
           DictV([i \in DOMAIN j.m |-> Entry(j.m[i].key, json_load(j.m[i].val))])
      [] j.kind = "string" -> StrV(j.s)
      [] j.kind = "number" -> NumV(j.n)
      [] j.kind = "array"  -> ListV(j.n)

\* ------------------------------------------------------------ logger: pure
RECURSIVE next_key_from(_, _, _, _)
next_key_from(d, key, temp_key, i) ==
    IF Has(d, temp_key)
    THEN next_key_from(d, key, key \o <<"-">> \o Str(i), i + 1)
    ELSE temp_key

\* Logger.__get_next_key
get_next_key(d, key) == next_key_from(d, key, key, 1)

\* add_entry as it would be without the key search: the key is used as given
add_entry_as_given(d, key, value) == DictSet(d, key, value)

\* Logger.add_entry, on the dict
add_entry(d, key, value) == DictSet(d, get_next_key(d, key), value)

RECURSIVE add_entries(_, _)
\* Logger.add_entries, on the dict
add_entries(d, entries) ==
    IF entries = <<>> THEN d
    ELSE add_entries(add_entry(d, Head(entries).key, Head(entries).val),
                     Tail(entries))

\* a merge that ignores the scope name: the entries always go in flat
merge_unscoped(d, scope, log) == DictUpdate(d, log)

\* Logger.__merge, on the parent's dict
merge(d, scope, log) ==
    IF scope # <<>>
    THEN DictSet(d, scope, DictV(log))
    ELSE DictUpdate(d, log)

\* the step counter's text with the '0' put in front of every counter
step_counter_to_string_always_0(n) == <<"0">> \o Str(n)

\* Logger.__step_counter_to_string
step_counter_to_string(n) ==
    (IF n < PadLimit THEN <<"0">> ELSE <<>>) \o Str(n)

\* the file name the save_* methods build
file_name(n, name, prefix_step, ext) ==
    (IF prefix_step THEN step_counter_to_string(n) \o <<"-">> ELSE <<>>)
        \o name \o ext

\* str(datetime): the timestamp's text
time_str(t) == <<"T">> \o Str(t)

\* __exit__ with the last two calls in the other order
exit_calls_dt_first(timestamp, start, now) ==
    << Entry(<<"start">>, StrV(time_str(timestamp))),
       Entry(<<"dt">>,    NumV(now + 1 - start)),
       Entry(<<"end">>,   StrV(time_str(now))) >>

\* the three add_entry calls of __exit__: `end` is read from the clock at
\* `now`, and `dt` from the reading after it
exit_calls(timestamp, start, now) ==
    << Entry(<<"start">>, StrV(time_str(timestamp))),
       Entry(<<"end">>,   StrV(time_str(now))),
       Entry(<<"dt">>,    NumV(now + 1 - start)) >>

\* ------------------------------------------------------------------ inputs
Ids        == 1..MaxLoggers
None       == 0
LOGS       == << <<"logs">> >>
\* scope arguments: '' (unnamed) and a name
SCOPES     == {<<>>, <<"a">>}
\* scope arguments for trees with siblings: a second name
TREE_SCOPES == SCOPES \cup {<<"b">>}
\* add_entry keys: a key, which is also a scope name and a callable's name,
\* and a key that reads like the first suffixed form of it
KEYS       == {<<"a">>, <<"a", "-", "1">>}
VALUES     == {NumV(1), NumV(2)}
ENTRY_LISTS ==
    {<<>>} \cup {<<Entry(k, NumV(3))>> : k \in KEYS}
           \cup {<<Entry(<<"a">>, NumV(3)), Entry(k, NumV(4))>> : k \in KEYS}
\* callables, by __name__, and the keyword arguments they are called with
FUNCS      == {<<"a">>, <<"f">>}
KWARGS     == {<<>>, <<Entry(<<"x">>, ArrV(ArrayLimit - 1))>>,
                     <<Entry(<<"x">>, ArrV(ArrayLimit))>>}
\* what the callables return
RESULT     == StrV(<<"r">>)
NAMES      == {<<"n">>}
EMPTY_DISK == [dirs |-> {}, files |-> <<>>]
\* what was on disk before the program ran
OLD        == [fmt |-> "old", doc |-> NumV(0)]
OLD_DISKS  ==
    { EMPTY_DISK,
      [dirs |-> {LOGS}, files |-> (Append(LOGS, <<"old">>) :> OLD)],
      [dirs |-> {LOGS, Append(LOGS, <<"a">>)},
       files |-> (Append(Append(LOGS, <<"a">>), <<"old">>) :> OLD)] }

\* ------------------------------------------------------------------- state
VARIABLES
    status,        \* per logger: "free" (not constructed), "open", "closed"
    OUTPUT,        \* per logger: self.OUTPUT
    SCOPE,         \* per logger: self.__SCOPE
    PARENT,        \* per logger: self.__PARENT (None for a root)
    logs,          \* per logger: self.__logs
    START,         \* per logger: self.__START
    TIMESTAMP,     \* per logger: self.__TIMESTAMP
    step_counter,  \* per logger: self.__step_counter
    clock,         \* the number of clock readings taken so far
    dirs,          \* the directories on disk
    files,         \* the files on disk: path -> content
    op,            \* the last operation, its arguments and its outcome
    pre,           \* logs, step counters and the disk before the last operation
    added,         \* per logger: the (key, value) arguments of its add_entry calls
    exited,        \* per logger: how many times its __exit__ ran
    CLEAR,         \* per logger: the clear_dir argument it was constructed with
    inserted,      \* the number of entries callers have inserted so far
    limit          \* how far the exploration goes: how many loggers, roots,
                   \* inserted entries and files, which clear_dir and scope
                   \* arguments, and whether blocks are nested `with`
                   \* statements; never changes

vars == <<status, OUTPUT, SCOPE, PARENT, logs, START, TIMESTAMP, step_counter,
          clock, dirs, files, op, pre, added, exited, CLEAR, inserted, limit>>

Snapshot == [logs |-> logs, step |-> step_counter, dirs |-> dirs, files |-> files,
             status |-> status]

NoOp == [name |-> "none", l |-> None, key |-> <<>>, val |-> NumV(0),
         ents |-> <<>>, flag |-> FALSE, raised |-> FALSE,
         path |-> <<>>, wrote |-> FALSE]

Fresh ==
    /\ status       = [l \in Ids |-> "free"]
    /\ OUTPUT       = [l \in Ids |-> <<>>]
    /\ SCOPE        = [l \in Ids |-> <<>>]
    /\ PARENT       = [l \in Ids |-> None]
    /\ logs         = [l \in Ids |-> <<>>]
    /\ START        = [l \in Ids |-> 0]
    /\ TIMESTAMP    = [l \in Ids |-> 0]
    /\ step_counter = [l \in Ids |-> 0]
    /\ clock        = 0
    /\ op           = NoOp
    /\ added        = [l \in Ids |-> <<>>]
    /\ exited       = [l \in Ids |-> 0]
    /\ CLEAR        = [l \in Ids |-> FALSE]
    /\ inserted     = 0

Limit(nl, nr, ni, nf, clears) ==
    [loggers |-> nl, roots |-> nr, inserts |-> ni, files |-> nf, clears |-> clears,
     nested |-> TRUE, scopes |-> SCOPES]

\* the state before the program constructs its first logger
Start(lim, disks) ==
    /\ Fresh
    /\ limit = lim
    /\ \E disk \in disks : dirs = disk.dirs /\ files = disk.files
    /\ pre = Snapshot

Init == Start(Limit(AllLoggers, 1, AllInserts, AllFiles, BOOLEAN), {EMPTY_DISK})

IsOpen(l) == status[l] = "open"
\* loggers are numbered in the order they are constructed
NextId    == CHOOSE l \in Ids : status[l] = "free" /\ \A k \in 1..(l - 1) : status[k] # "free"
Made      == {l \in Ids : status[l] # "free"}
HasFree   == Made # Ids /\ Cardinality(Made) < limit.loggers
Roots     == {l \in Made : PARENT[l] = None}
MayInsert(n) == inserted + n <= limit.inserts

\* ----------------------------------------------------------------- actions
\* Logger.__init__
init(l, output, scope, parent, clear_dir) ==
    LET out     == IF scope # <<>> THEN Append(output, scope) ELSE output
        cleared == IF clear_dir THEN rmtree_dirs(dirs, out) ELSE dirs
        kept    == IF clear_dir THEN rmtree_files(dirs, files, out) ELSE files
    IN  /\ status'       = [status EXCEPT ![l] = "open"]
        /\ OUTPUT'       = [OUTPUT EXCEPT ![l] = out]
        /\ SCOPE'        = [SCOPE EXCEPT ![l] = scope]
        /\ PARENT'       = [PARENT EXCEPT ![l] = parent]
        /\ logs'         = [logs EXCEPT ![l] = <<>>]
        /\ START'        = [START EXCEPT ![l] = clock]
        /\ TIMESTAMP'    = [TIMESTAMP EXCEPT ![l] = clock + 1]
        /\ step_counter' = [step_counter EXCEPT ![l] = FirstStep]
        /\ clock'        = clock + 2
        /\ dirs'         = mkdir(cleared, out)
        /\ files'        = kept
        /\ CLEAR'        = [CLEAR EXCEPT ![l] = clear_dir]
        /\ pre'          = Snapshot
        /\ UNCHANGED <<added, exited, inserted, limit>>

\* Logger(output, scope, clear_dir=...): a root logger is constructed
NewLogger ==
    \E scope \in limit.scopes, clear_dir \in limit.clears :
        /\ HasFree
        /\ Cardinality(Roots) < limit.roots
        /\ init(NextId, LOGS, scope, None, clear_dir)
        /\ op' = [NoOp EXCEPT !.name = "Logger", !.l = NextId, !.key = scope,
                              !.flag = clear_dir]

\* Logger.get_child
get_child ==
    \E p \in Ids, scope \in limit.scopes :
        /\ IsOpen(p)
        /\ HasFree
        /\ init(NextId, OUTPUT[p], scope, p, FALSE)
        /\ op' = [NoOp EXCEPT !.name = "get_child", !.l = NextId, !.key = scope]

\* Logger.add_entry
AddEntry ==
    \E l \in Ids, key \in KEYS, value \in VALUES :
        /\ IsOpen(l)
        /\ MayInsert(1)
        /\ inserted' = inserted + 1
        /\ logs' = [logs EXCEPT ![l] = add_entry(logs[l], key, value)]
        /\ added' = [added EXCEPT ![l] = Append(@, Entry(key, value))]
        /\ op'   = [NoOp EXCEPT !.name = "add_entry", !.l = l, !.key = key,
                                !.val = value]
        /\ pre'  = Snapshot
        /\ UNCHANGED <<status, OUTPUT, SCOPE, PARENT, START, TIMESTAMP,
                       step_counter, clock, dirs, files, exited, CLEAR, limit>>

\* Logger.add_entries
AddEntries ==
    \E l \in Ids, entries \in ENTRY_LISTS :
        /\ IsOpen(l)
        /\ MayInsert(Len(entries))
        /\ inserted' = inserted + Len(entries)
        /\ logs' = [logs EXCEPT ![l] = add_entries(logs[l], entries)]
        /\ added' = [added EXCEPT ![l] = @ \o entries]
        /\ op'   = [NoOp EXCEPT !.name = "add_entries", !.l = l, !.ents = entries]
        /\ pre'  = Snapshot
        /\ UNCHANGED <<status, OUTPUT, SCOPE, PARENT, START, TIMESTAMP,
                       step_counter, clock, dirs, files, exited, CLEAR, limit>>

\* Logger.log_func when the callable returns: the log the call builds
log_func_log(dt, kwargs) ==
    DictV(<<Entry(<<"dt">>, NumV(dt)), Entry(<<"params">>, DictV(kwargs))>>)

\* Logger.log_func when the callable returns: the entry the call records
log_func_entry(d, name, dt, kwargs) ==
    add_entry(d, name, log_func_log(dt, kwargs))

\* Logger.log_func when the callable returns: what the call returns
log_func_result(result) == result

\* log_func without its increment
log_func_step_kept(n) == n

\* Logger.log_func when the callable returns: the counter after the call
log_func_step(n) == n + 1

\* Logger.log_func: the callable returns, or raises and the call is left
\* at once
LogFunc ==
    \E l \in Ids, func \in FUNCS, kwargs \in KWARGS, raises \in BOOLEAN :
        /\ IsOpen(l)
        /\ MayInsert(1)
        /\ inserted' = inserted + 1
        /\ IF raises
           THEN /\ clock' = clock + 1
                /\ op'    = [NoOp EXCEPT !.name = "log_func", !.l = l, !.key = func,
                                         !.ents = kwargs, !.raised = TRUE]
                /\ UNCHANGED <<logs, step_counter, added>>
           ELSE /\ clock' = clock + 2
                /\ logs'  = [logs EXCEPT ![l] = log_func_entry(logs[l], func, 1, kwargs)]
                /\ added' = [added EXCEPT ![l] = Append(@, Entry(func, log_func_log(1, kwargs)))]
                /\ step_counter' = [step_counter EXCEPT ![l] = log_func_step(step_counter[l])]
                /\ op'    = [NoOp EXCEPT !.name = "log_func", !.l = l, !.key = func,
                                         !.ents = kwargs,
                                         !.val = log_func_result(RESULT)]
        /\ pre'  = Snapshot
        /\ UNCHANGED <<status, OUTPUT, SCOPE, PARENT, START, TIMESTAMP,
                       dirs, files, exited, CLEAR, limit>>

\* what the library writers put into a file, as far as the logger decides it
Blob(fmt) == [fmt |-> fmt, doc |-> NumV(0)]
Json(dictionary) == [fmt |-> "json", doc |-> json_dump(DictV(dictionary))]

\* the common body of the save_* methods: the path is OUTPUT joined with the
\* file name, and the writer is called on it
save(l, name, prefix_step, ext, content, method) ==
    LET path == Append(OUTPUT[l], file_name(step_counter[l], name, prefix_step, ext))
    IN  /\ IsOpen(l)
        /\ Cardinality(DOMAIN files) < limit.files
        /\ files' = write_file(dirs, files, path, content)
        /\ op'    = [NoOp EXCEPT !.name = method, !.l = l, !.key = name,
                                 !.flag = prefix_step, !.path = path,
                                 !.wrote = DirExists(dirs, OUTPUT[l]),
                                 !.raised = ~DirExists(dirs, OUTPUT[l])]
        /\ pre'   = Snapshot
        /\ UNCHANGED <<status, OUTPUT, SCOPE, PARENT, logs, START, TIMESTAMP,
                       step_counter, clock, dirs, added, exited, CLEAR,
                       inserted, limit>>

\* Logger.save_obj
SaveObj ==
    \E l \in Ids, name \in NAMES, prefix_step \in BOOLEAN :
        save(l, name, prefix_step, <<".joblib">>, Blob("joblib"), "save_obj")

\* Logger.save_fig
SaveFig ==
    \E l \in Ids, name \in NAMES, prefix_step \in BOOLEAN :
        save(l, name, prefix_step, <<".png">>, Blob("figure"), "save_fig")

\* Logger.save_csv
SaveCsv ==
    \E l \in Ids, name \in NAMES, prefix_step \in BOOLEAN :
        save(l, name, prefix_step, <<".csv">>, Blob("csv"), "save_csv")

\* Logger.save_json
SaveJson ==
    \E l \in Ids, name \in NAMES, prefix_step \in BOOLEAN, dictionary \in KWARGS :
        save(l, name, prefix_step, <<".json">>, Json(dictionary), "save_json")

\* Logger.save_image, with its default filetype
SaveImage ==
    \E l \in Ids, name \in NAMES, prefix_step \in BOOLEAN :
        save(l, name, prefix_step, <<".", "png">>, Blob("image"), "save_image")

\* Logger.save_gif
SaveGif ==
    \E l \in Ids, name \in NAMES, prefix_step \in BOOLEAN :
        save(l, name, prefix_step, <<".gif">>, Blob("gif"), "save_gif")

\* the path of the file a root's __exit__ writes
telemetry_path(l) == Append(OUTPUT[l], file_name(step_counter[l], <<"telemetry">>, FALSE, <<".json">>))

\* __exit__ returns None: the with statement does not swallow the exception
exit_suppresses == FALSE

\* whether __exit__ hands the mapping to the parent's merge
exit_merges(l) == PARENT[l] # None

\* Logger.__exit__, run by the with statement when the block is left,
\* normally (exc = FALSE) or by an exception (exc = TRUE)
Exit ==
    \E l \in Ids, exc \in BOOLEAN :
        LET calls == exit_calls(TIMESTAMP[l], START[l], clock)
            mine  == add_entries(logs[l], calls)
            p     == PARENT[l]
        IN  /\ IsOpen(l)
            /\ limit.nested => \A k \in Ids : PARENT[k] = l => ~IsOpen(k)
            /\ status' = [status EXCEPT ![l] = "closed"]
            /\ exited' = [exited EXCEPT ![l] = @ + 1]
            /\ added'  = [added EXCEPT ![l] = @ \o calls]
            /\ clock'  = clock + 2
            /\ IF exit_merges(l)
               THEN /\ logs'  = [logs EXCEPT ![l] = mine,
                                             ![p] = merge(logs[p], SCOPE[l], mine)]
                    /\ files' = files
                    /\ op'    = [NoOp EXCEPT !.name = "exit", !.l = l, !.flag = exc,
                                             !.raised = exc /\ ~exit_suppresses]
               ELSE /\ logs'  = [logs EXCEPT ![l] = mine]
                    /\ files' = write_file(dirs, files, telemetry_path(l), Json(mine))
                    /\ op'    = [NoOp EXCEPT !.name = "exit", !.l = l, !.flag = exc,
                                             !.path = telemetry_path(l),
                                             !.wrote = DirExists(dirs, OUTPUT[l]),
                                             !.raised = (exc /\ ~exit_suppresses)
                                                        \/ ~DirExists(dirs, OUTPUT[l])]
            /\ pre' = Snapshot
            /\ UNCHANGED <<OUTPUT, SCOPE, PARENT, START, TIMESTAMP, step_counter,
                           dirs, CLEAR, inserted, limit>>

Next ==
    \/ NewLogger
    \/ get_child
    \/ AddEntry
    \/ AddEntries
    \/ LogFunc
    \/ SaveObj
    \/ SaveFig
    \/ SaveCsv
    \/ SaveJson
    \/ SaveImage
    \/ SaveGif
    \/ Exit

Spec == Init /\ [][Next]_vars

\* ----------------------------------------------------- entry insertion only
InitEntries == Start(Limit(1, 1, MaxEntries, 0, {FALSE}), {EMPTY_DISK})
NextEntries == NewLogger \/ AddEntry \/ AddEntries \/ Exit
SpecEntries == InitEntries /\ [][NextEntries]_vars

\* ------------------------------------------- a tree of scopes under one root
InitMerge == Start(Limit(MergeLoggers, 1, MergeEntries, 0, {FALSE}), {EMPTY_DISK})
NextMerge == NewLogger \/ get_child \/ AddEntry \/ Exit
SpecMerge == InitMerge /\ [][NextMerge]_vars

\* ------- a tree with sibling scopes, whose blocks may be left in any order
InitTree == Start([Limit(TreeLoggers, 1, TreeEntries, 0, {FALSE})
                       EXCEPT !.nested = FALSE, !.scopes = TREE_SCOPES],
                  {EMPTY_DISK})
NextTree == NewLogger \/ get_child \/ AddEntry \/ Exit
SpecTree == InitTree /\ [][NextTree]_vars

\* ------------------------------------ persistence and timed calls, two roots
InitPersist == Start(Limit(PersistLoggers, PersistRoots, PersistCalls, 0, BOOLEAN),
                     {EMPTY_DISK})
NextPersist == LogFunc \/ get_child \/ Exit \/ NewLogger
SpecPersist == InitPersist /\ [][NextPersist]_vars

\* ----------------------------------------------- the step counter, far out
\* self.__logs after n log_func calls of callable f without arguments: the
\* keys are f, f-1, f-2, ..., which is what add_entry makes of n insertions
\* of f
called_logs(n) ==
    [i \in 1..n |-> Entry(IF i = 1 THEN <<"f">> ELSE <<"f", "-">> \o Str(i - 1),
                          log_func_log(1, <<>>))]

\* self.__step_counter after n log_func calls
called_step(n) == FirstStep + n

\* how many calls the root has made: none, one, and the counts around the
\* places where the counter's text changes its length
PRIORS == {0, 1, PadLimit - 2, PadLimit - 1, PadLimit, MaxPrior - 1, MaxPrior}

\* the state after Logger(LOGS) on an empty disk and n log_func(f) calls
InitStep ==
    \E n \in PRIORS :
        /\ status       = [l \in Ids |-> IF l = 1 THEN "open" ELSE "free"]
        /\ OUTPUT       = [l \in Ids |-> IF l = 1 THEN LOGS ELSE <<>>]
        /\ SCOPE        = [l \in Ids |-> <<>>]
        /\ PARENT       = [l \in Ids |-> None]
        /\ logs         = [l \in Ids |-> IF l = 1 THEN called_logs(n) ELSE <<>>]
        /\ START        = [l \in Ids |-> 0]
        /\ TIMESTAMP    = [l \in Ids |-> IF l = 1 THEN 1 ELSE 0]
        /\ step_counter = [l \in Ids |-> IF l = 1 THEN called_step(n) ELSE 0]
        /\ clock        = 2 + 2 * n
        /\ dirs         = mkdir({}, LOGS)
        /\ files        = <<>>
        /\ op           = NoOp
        /\ added        = [l \in Ids |-> IF l = 1
                                         THEN [i \in 1..n |-> Entry(<<"f">>, log_func_log(1, <<>>))]
                                         ELSE <<>>]
        /\ exited       = [l \in Ids |-> 0]
        /\ CLEAR        = [l \in Ids |-> FALSE]
        /\ inserted     = 0
        /\ limit        = Limit(StepLoggers, 1, StepCalls, StepFiles, {FALSE})
        /\ pre          = Snapshot
NextStep == get_child \/ LogFunc \/ SaveObj \/ SaveFig \/ SaveCsv \/ SaveJson
                      \/ SaveImage \/ SaveGif
SpecStep == InitStep /\ [][NextStep]_vars

\* ------------------------------------------------- the disk, several roots
InitDisk == Start(Limit(DiskLoggers, DiskRoots, 0, DiskFiles, BOOLEAN), OLD_DISKS)
NextDisk == SaveObj \/ get_child \/ Exit \/ NewLogger
SpecDisk == InitDisk /\ [][NextDisk]_vars

\* ------------------------------------------------------------------ claims
\* the i-th candidate key for k: k itself, then k-1, k-2, ...
Cand(k, i) == IF i = 0 THEN k ELSE k \o <<"-">> \o Str(i)

\* the first of k, k-1, k-2, ... that dict d does not hold
FirstFree(d, k) ==
    Cand(k, CHOOSE i \in 0..Len(d) :
                /\ ~Has(d, Cand(k, i))
                /\ \A j \in 0..(i - 1) : Has(d, Cand(k, j)))

RECURSIVE AppendAll(_, _)
\* d with each entry of ents appended under the first free candidate of its key
AppendAll(d, ents) ==
    IF ents = <<>> THEN d
    ELSE AppendAll(Append(d, Entry(FirstFree(d, Head(ents).key), Head(ents).val)),
                   Tail(ents))

\* the values logger l's add_entry calls supplied for key k, in call order
Supplied(l, k) ==
    LET IsK(e) == e.key = k IN SelectSeq(added[l], IsK)

\* d holds k, k-1, k-2, ... in this order, the j-th of them with the value
\* of the j-th insertion of k
HoldsInOrder(l, k) ==
    LET vs == Supplied(l, k)
    IN  \A j \in 1..Len(vs) :
            /\ Has(logs[l], Cand(k, j - 1))
            /\ Get(logs[l], Cand(k, j - 1)) = vs[j].val
            /\ j > 1 => IndexOf(logs[l], Cand(k, j - 2)) < IndexOf(logs[l], Cand(k, j - 1))

\* the last operation was add_entry or add_entries, and it kept every entry
\* the logger held, at its place and with its value
KeepsEntries ==
    op.name \in {"add_entry", "add_entries"} =>
        /\ Len(pre.logs[op.l]) <= Len(logs[op.l])
        /\ SubSeq(logs[op.l], 1, Len(pre.logs[op.l])) = pre.logs[op.l]

\* logger l was given a key that is a suffixed form k-<n> of another key it
\* was given
SuffixClash(l) ==
    \E i, j \in DOMAIN added[l] :
        \E n \in 1..Len(added[l]) : added[l][j].key = Cand(added[l][i].key, n)

\* C1 as stated: after any add_entry / add_entries calls, every inserted key k
\* is held as k, k-1, k-2, ... in first-insertion order, each with the value
\* of the corresponding insertion of k, and no call changes or removes an
\* entry that is already there.
C1_AsStated ==
    /\ \A l \in Made : \A e \in {added[l][i] : i \in DOMAIN added[l]} :
           HoldsInOrder(l, e.key)
    /\ KeepsEntries

\* C1, amended: every add_entry call appends one entry, under the first of
\* k, k-1, k-2, ... that the mapping does not hold yet and with the value
\* supplied, and keeps every earlier entry; when no inserted key is a
\* suffixed form of another inserted key, the mapping holds k, k-1, k-2, ...
\* in first-insertion order, each with the value of the corresponding
\* insertion of k.
C1_FirstFreeKey ==
    /\ KeepsEntries
    /\ op.name = "add_entry" =>
           logs[op.l] = Append(pre.logs[op.l],
                               Entry(FirstFree(pre.logs[op.l], op.key), op.val))
    /\ op.name = "add_entries" =>
           logs[op.l] = AppendAll(pre.logs[op.l], op.ents)
    /\ \A l \in Made :
           ~SuffixClash(l) =>
               \A e \in {added[l][i] : i \in DOMAIN added[l]} : HoldsInOrder(l, e.key)

\* a key was inserted three times, with no clash, and is held three times
C1_Witness ==
    \E l \in Made :
        /\ op.name \in {"add_entry", "add_entries"}
        /\ op.l = l
        /\ ~SuffixClash(l)
        /\ Len(Supplied(l, <<"a">>)) = 3
        /\ Has(logs[l], Cand(<<"a">>, 2))

\* the last operation was the exit of a logger that has a parent
ChildExit == op.name = "exit" /\ PARENT[op.l] # None

\* every entry of dict d is in dict e, under its key and with its value
KeptIn(d, e) ==
    \A i \in DOMAIN d : Has(e, d[i].key) /\ Get(e, d[i].key) = d[i].val

\* C2 as stated: the merge at a child's exit, named or unnamed, never changes
\* or removes the value of a key the parent holds: an incoming key that the
\* parent holds already is stored under the next unused suffixed key, as
\* add_entry would store it.
C2_MergeKeepsParentKeys ==
    ChildExit =>
        LET p      == PARENT[op.l]
            before == pre.logs[p]
            mine   == logs[op.l]
        IN  /\ KeptIn(before, logs[p])
            /\ logs[p] = IF SCOPE[op.l] # <<>>
                         THEN AppendAll(before, <<Entry(SCOPE[op.l], DictV(mine))>>)
                         ELSE AppendAll(before, mine)

\* C3 as stated: the exit of a child with a non-empty scope name gives the
\* parent exactly one new top-level key, the scope name, whose value is the
\* child's whole mapping with its start, end and dt, and leaves every other
\* entry of the parent as it was.
C3_NamedChildAddsOneKey ==
    (ChildExit /\ SCOPE[op.l] # <<>>) =>
        LET p      == PARENT[op.l]
            before == pre.logs[p]
            mine   == logs[op.l]
        IN  /\ ~Has(before, SCOPE[op.l])
            /\ KeysOf(logs[p]) = KeysOf(before) \cup {SCOPE[op.l]}
            /\ Get(logs[p], SCOPE[op.l]) = DictV(mine)
            /\ {<<"start">>, <<"end">>, <<"dt">>} \subseteq KeysOf(mine)
            /\ SubSeq(logs[p], 1, Len(before)) = before

\* C4 as stated: after the exit of a child with an empty scope name, the
\* parent's mapping is what add_entry, called on the parent once for each
\* entry of the child in the child's order, would have made of it.
C4_UnnamedChildAsAddEntry ==
    (ChildExit /\ SCOPE[op.l] = <<>>) =>
        logs[PARENT[op.l]] = add_entries(pre.logs[PARENT[op.l]], logs[op.l])

\* C5: leaving a logger's block, normally or by an exception, appends start,
\* end and dt in this order after the entries the logger held, each under
\* the first free candidate of its key and the logger's earlier entries kept;
\* then the whole mapping is handed to the parent (every entry of it is in the
\* parent afterwards, under the scope name or at top level) or, for a root,
\* written to telemetry.json; the exit runs once per logger, and an exception
\* raised in the block still propagates.
C5_ExitBookkeeping ==
    /\ \A l \in Ids : exited[l] = (IF status[l] = "closed" THEN 1 ELSE 0)
    /\ op.name = "exit" =>
        LET l      == op.l
            p      == PARENT[l]
            before == pre.logs[l]
            n      == Len(before)
            mine   == logs[l]
            k1     == FirstFree(before, <<"start">>)
            k2     == FirstFree(Append(before, Entry(k1, NumV(0))), <<"end">>)
            k3     == FirstFree(Append(Append(before, Entry(k1, NumV(0))),
                                       Entry(k2, NumV(0))), <<"dt">>)
        IN  /\ pre.status[l] = "open" /\ status[l] = "closed"
            /\ Len(mine) = n + 3
            /\ SubSeq(mine, 1, n) = before
            /\ mine[n + 1] = Entry(k1, StrV(time_str(TIMESTAMP[l])))
            /\ mine[n + 2] = Entry(k2, StrV(time_str(clock - 2)))
            /\ mine[n + 3] = Entry(k3, NumV(clock - 1 - START[l]))
            /\ clock - 2 >= TIMESTAMP[l]
            /\ IF p # None
               THEN /\ files = pre.files
                    /\ IF SCOPE[l] # <<>>
                       THEN Has(logs[p], SCOPE[l]) /\ Get(logs[p], SCOPE[l]) = DictV(mine)
                       ELSE KeptIn(mine, logs[p])
               ELSE /\ op.path = Append(OUTPUT[l], <<"telemetry", ".json">>)
                    /\ op.wrote => /\ op.path \in DOMAIN files
                                   /\ files[op.path] = Json(mine)
            /\ op.flag => op.raised

\* a child that holds an entry is left by an exception
C5_Witness ==
    /\ ChildExit
    /\ op.flag
    /\ op.raised
    /\ Len(pre.logs[op.l]) > 0
    /\ Len(logs[op.l]) = Len(pre.logs[op.l]) + 3

RECURSIVE Decoded(_)
\* value v as it reads once written as JSON and parsed: a numpy array comes
\* back as a list when it has fewer than ArrayLimit elements and as the text of
\* its shape otherwise; everything else comes back as it was
Decoded(v) ==
    CASE v.kind = "dict" ->
           DictV([i \in DOMAIN v.m |-> Entry(v.m[i].key, Decoded(v.m[i].val))])
      [] v.kind = "arr"  ->
           IF v.n >= ArrayLimit
           THEN StrV(<<"shape:", "(">> \o Str(v.n) \o <<",", ")">>)
           ELSE ListV(v.n)
      [] OTHER -> v

\* the last operation was the exit of a root logger
RootExit == op.name = "exit" /\ PARENT[op.l] = None

\* the telemetry file of logger l
Telemetry(l) == Append(OUTPUT[l], <<"telemetry", ".json">>)

CallEntry(d, name, kwargs) ==
    Entry(FirstFree(d, name),
          DictV(<<Entry(<<"dt">>, NumV(1)), Entry(<<"params">>, DictV(kwargs))>>))

\* the last log_func call recorded one entry, returned the callable's result
\* and stepped the counter by one, and touched no other logger
CallRecorded ==
    /\ logs[op.l] = Append(pre.logs[op.l], CallEntry(pre.logs[op.l], op.key, op.ents))
    /\ op.val = RESULT
    /\ step_counter[op.l] = pre.step[op.l] + 1
    /\ \A k \in Ids \ {op.l} : logs[k] = pre.logs[k] /\ step_counter[k] = pre.step[k]

\* C7 as stated: every log_func call records exactly one entry, keyed by the
\* callable's name under the collision rule and holding the duration and the
\* keyword arguments, returns the callable's result and steps the counter by
\* one.
C7_EveryCallRecorded ==
    op.name = "log_func" => CallRecorded

\* C7, amended: every log_func call whose callable returns records exactly
\* one entry, keyed by the callable's name under the collision rule and
\* holding the duration and the keyword arguments, returns the callable's
\* result and steps that logger's counter by one; a call whose callable
\* raises records nothing and leaves the counter as it was.
C7_ReturningCallRecorded ==
    op.name = "log_func" =>
        IF op.raised
        THEN logs = pre.logs /\ step_counter = pre.step
        ELSE CallRecorded

\* two calls in a row, of callables a and f, left two entries keyed a and f
C7_Witness ==
    /\ op.name = "log_func"
    /\ ~op.raised
    /\ op.key = <<"f">>
    /\ Len(logs[op.l]) = 2
    /\ logs[op.l][1].key = <<"a">>
    /\ logs[op.l][1].val.kind = "dict"
    /\ logs[op.l][2].key = <<"f">>
    /\ step_counter[op.l] = FirstStep + 2

SAVES == {"save_obj", "save_fig", "save_csv", "save_json", "save_image", "save_gif"}

IsDigit(t)    == \E d \in DOMAIN Digits : Digits[d] = t
DigitValue(t) == (CHOOSE d \in DOMAIN Digits : Digits[d] = t) - 1

RECURSIVE Number(_)
\* the number a sequence of decimal digits denotes
Number(ds) ==
    IF ds = <<>> THEN 0
    ELSE 10 * Number(SubSeq(ds, 1, Len(ds) - 1)) + DigitValue(ds[Len(ds)])

\* text t is the decimal form of n, padded with zeros to two digits when it
\* is shorter and not padded otherwise
PaddedDecimal(t, n) ==
    /\ Len(t) >= 2
    /\ \A i \in DOMAIN t : IsDigit(t[i])
    /\ Number(t) = n
    /\ Len(t) > 2 => t[1] # "0"

\* the name of the file the last save wrote
SavedName == op.path[Len(op.path)]

Wrote == op.name \in SAVES \/ RootExit

\* a logger constructed after l cleared a directory above l's
Wiped(l) ==
    \E k \in Made :
        /\ k > l
        /\ CLEAR[k]
        /\ IsPrefix(OUTPUT[k], OUTPUT[l])
        /\ OUTPUT[k] # OUTPUT[l]

\* C9 as stated: whatever loggers are constructed, with or without scope and
\* clear_dir, a logger's directory exists whenever that logger writes an
\* artifact, the root's telemetry.json included.
C9_DirectoryExistsAtWrite ==
    Wrote => /\ DirExists(pre.dirs, OUTPUT[op.l])
             /\ op.path \in DOMAIN files

\* C9, amended: a logger's directory exists when its construction ends, and
\* it exists whenever the logger writes an artifact, the root's
\* telemetry.json included, unless a logger constructed later with
\* clear_dir=True cleared a directory above it.
C9_DirectoryExistsUnlessWiped ==
    /\ op.name \in {"Logger", "get_child"} => OUTPUT[op.l] \in dirs
    /\ (Wrote /\ ~Wiped(op.l)) =>
           /\ DirExists(pre.dirs, OUTPUT[op.l])
           /\ op.wrote
           /\ op.path \in DOMAIN files

\* a logger saves an artifact after a later logger cleared its very
\* directory, which the later logger made again
C9_Witness ==
    /\ op.name \in SAVES
    /\ op.wrote
    /\ \E k \in Made : k > op.l /\ CLEAR[k] /\ OUTPUT[k] = OUTPUT[op.l]

\* path q lies under directory d
Under(d, q) == IsPrefix(d, q) /\ q # d

\* C10: a logger constructed with clear_dir=True has its directory, the base
\* joined with the scope name when there is one, existing and empty
\* afterwards, whether the directory held something before, was empty or was
\* absent, and nothing outside it is removed; constructed with
\* clear_dir=False, as get_child does, it has its directory existing and
\* everything that was on disk kept.
C10_ClearDir ==
    /\ op.name = "Logger" =>
           OUTPUT[op.l] = (IF op.key # <<>> THEN Append(LOGS, op.key) ELSE LOGS)
    /\ op.name \in {"Logger", "get_child"} =>
           LET out == OUTPUT[op.l]
           IN  /\ out \in dirs
               /\ IF op.flag
                  THEN /\ \A d \in dirs : ~Under(out, d)
                       /\ \A q \in DOMAIN files : ~Under(out, q)
                       /\ \A d \in pre.dirs : ~Under(out, d) => d \in dirs
                       /\ \A q \in DOMAIN pre.files :
                              ~Under(out, q) => q \in DOMAIN files /\ files[q] = pre.files[q]
                  ELSE /\ pre.dirs \subseteq dirs
                       /\ files = pre.files

\* a logger is constructed with clear_dir=True over a directory that held a
\* file in a subdirectory
C10_Witness ==
    /\ op.name = "Logger"
    /\ op.flag
    /\ OUTPUT[op.l] \in pre.dirs
    /\ \E q \in DOMAIN pre.files : Under(OUTPUT[op.l], q) /\ Parent(q) # OUTPUT[op.l]
    /\ \A q \in DOMAIN files : ~Under(OUTPUT[op.l], q)

\* ---------------------------------------------------------------- C11
\* the root of the tree logger l is in
RECURSIVE RootOf(_)
RootOf(l) == IF PARENT[l] = None THEN l ELSE RootOf(PARENT[l])

\* the scope names from the root down to logger l
RECURSIVE Chain(_)
Chain(l) == IF PARENT[l] = None THEN <<>> ELSE Append(Chain(PARENT[l]), SCOPE[l])

\* the clock reading from which the exited logger l computed its dt, the last
\* entry it was given
ExitedAt(l) == START[l] + added[l][Len(added[l])].val.n

\* logger l has exited, before its parent exited, which exited before its
\* own parent exited, and so on up to the root, which has exited too
RECURSIVE Reached(_)
Reached(l) ==
    /\ status[l] = "closed"
    /\ \/ PARENT[l] = None
       \/ /\ Reached(PARENT[l])
          /\ ExitedAt(l) < ExitedAt(PARENT[l])

\* the scope name of logger l is not empty, differs from its siblings' names
\* and is not a key, or a suffixed form of a key, its parent was given
NamedApart(l) ==
    LET p == PARENT[l]
    IN  /\ SCOPE[l] # <<>>
        /\ \A k \in Made \ {l} : PARENT[k] = p => SCOPE[k] # SCOPE[l]
        /\ \A i \in DOMAIN added[p] : \A n \in 0..Len(added[p]) :
               Cand(added[p][i].key, n) # SCOPE[l]

\* every logger below root r is named apart
TreeNamedApart(r) ==
    \A k \in Made : (k # r /\ RootOf(k) = r) => NamedApart(k)

\* parsed document v holds a mapping at the end of the chain of keys path
RECURSIVE Located(_, _)
Located(v, path) ==
    /\ v.kind = "dict"
    /\ path # <<>> =>
           /\ Has(v.m, Head(path))
           /\ Located(Get(v.m, Head(path)), Tail(path))

\* the mapping document v holds at the end of the chain of keys path
RECURSIVE At(_, _)
At(v, path) == IF path = <<>> THEN v.m ELSE At(Get(v.m, Head(path)), Tail(path))

\* mapping m holds every entry of ents, each under its key or a suffixed
\* form of it and with its value as JSON renders it: as many times as ents
\* has the entry, at least
HoldsAll(m, ents) ==
    \A i \in DOMAIN ents :
        Cardinality({j \in DOMAIN ents : ents[j] = ents[i]}) <=
        Cardinality({j \in DOMAIN m :
                        /\ m[j].val = Decoded(ents[i].val)
                        /\ \E n \in 0..Len(m) : m[j].key = Cand(ents[i].key, n)})

\* the parsed telemetry file of root r
TelemetryDoc(r) == json_load(files[Telemetry(r)].doc)

\* C11: in a tree of loggers under one root whose scope names are non-empty,
\* distinct among siblings and distinct from the parent's own keys, the
\* telemetry.json the root wrote at its exit holds, under the chain of scope
\* names from the root to the logger, every entry ever given to every logger
\* that exited before its parent did, all the way up; and it holds nothing
\* under the scope name of a logger that had not exited when its parent
\* exited: entries reach the file only through the merges made before.
C11_TreeReachesRootFile ==
    \A r \in Roots :
        (status[r] = "closed" /\ Telemetry(r) \in DOMAIN files /\ TreeNamedApart(r)) =>
            \A l \in Made :
                RootOf(l) = r =>
                    /\ Reached(l) =>
                           /\ Located(TelemetryDoc(r), Chain(l))
                           /\ HoldsAll(At(TelemetryDoc(r), Chain(l)), added[l])
                    /\ (l # r /\ ~Reached(l) /\ Reached(PARENT[l])) =>
                           ~Has(At(TelemetryDoc(r), Chain(PARENT[l])), SCOPE[l])

\* a root with two children under different names, both exited before it
\* and one of them given an entry of its own, has just exited and written
\* its file
C11_Witness ==
    /\ RootExit
    /\ op.wrote
    /\ TreeNamedApart(op.l)
    /\ \E c \in Made, e \in Made :
           /\ c # e
           /\ PARENT[c] = op.l /\ PARENT[e] = op.l
           /\ Reached(c) /\ Reached(e)
           /\ Len(added[c]) > 3

====
